---- MODULE Spec2Model ----
(***************************************************************************)
(* Model of the task-draft builder of AddTaskDrawer.tsx: the draft held in *)
(* the component's state (newTask), its input handlers, handleSubmit and   *)
(* the two callbacks (onAddTask, onClose) it is given by the host view.    *)
(*                                                                         *)
(* Strings are sequences of one-character strings, so that trim() and      *)
(* parseInt() are computed as JavaScript computes them.  A Date is its     *)
(* time value in milliseconds since the epoch; a date-only string          *)
(* "YYYY-MM-DD" is the number of its calendar day since 1970-01-01.        *)
(* Array indices are 0-based as in the source.                             *)
(***************************************************************************)
EXTENDS Integers, Sequences, FiniteSets, TLC

VARIABLES
    newTask,     \* the draft: useState<NewTaskData>
    drawerMode,  \* host view: the drawer is mounted while "addTask"
    calls,       \* callbacks invoked so far by this drawer instance, in order
    now,         \* the last value Date.now() returned
    tzOffset,    \* Date.prototype.getTimezoneOffset(), minutes (UTC - local)
    taskLists,   \* prop taskLists: the identifiers of the lists supplied, in order
    last         \* the last handler run: its name, its arguments, whether it threw

vars == <<newTask, drawerMode, calls, now, tzOffset, taskLists, last>>

----------------------------------------------------------------------------
(* Bounds of the model *)

MaxSubtasks == 3     \* rows the subtask list may grow to
MaxTicks == 1        \* milliseconds that may pass while the drawer is open
MaxDay == 6          \* last calendar day a date input may name
MaxDurLen == 2       \* longest string typed into the duration input

----------------------------------------------------------------------------
(* Strings *)

WhiteSpace == {" ", "\t"}

RECURSIVE TrimStart(_)
TrimStart(s) ==
    IF s = <<>> THEN s
    ELSE IF Head(s) \in WhiteSpace THEN TrimStart(Tail(s)) ELSE s

RECURSIVE TrimEnd(_)
TrimEnd(s) ==
    IF s = <<>> THEN s
    ELSE IF s[Len(s)] \in WhiteSpace THEN TrimEnd(SubSeq(s, 1, Len(s) - 1)) ELSE s

\* String.prototype.trim()
Trim(s) == TrimEnd(TrimStart(s))

\* All strings over the characters cs of length at most n
RECURSIVE StringsUpTo(_, _)
StringsUpTo(cs, n) ==
    IF n = 0 THEN {<<>>}
    ELSE LET shorter == StringsUpTo(cs, n - 1)
         IN  shorter \cup {Append(s, c) : s \in shorter, c \in cs}

\* Values typed into the title input
TitleInputs == {<<>>, <<"\t", " ">>, <<" ", "a", " ">>}

\* Values typed into a subtask row
SubtaskInputs == {<<>>, <<" ">>, <<"a">>, <<"b">>}

\* Values typed into the notes
NotesInputs == {<<>>, <<" ", "n", "\t">>}

\* Values chosen in the start time input
StartTimeInputs == {<<>>, <<"0", "9", ":", "0", "0">>}

----------------------------------------------------------------------------
(* parseInt(string), radix 10: leading white space is skipped, an optional  *)
(* sign is read, then the longest prefix of digits; with no digit the       *)
(* result is NaN.                                                           *)

Digits == <<"0", "1", "2", "3", "4", "5", "6", "7", "8", "9">>

IsDigit(c) == \E d \in 1..Len(Digits) : Digits[d] = c

DigitValue(c) == (CHOOSE d \in 1..Len(Digits) : Digits[d] = c) - 1

RECURSIVE DigitsValue(_, _)
DigitsValue(s, acc) ==
    IF s = <<>> \/ ~IsDigit(Head(s)) THEN acc
    ELSE DigitsValue(Tail(s), acc * 10 + DigitValue(Head(s)))

ParseInt(str) ==
    LET s == TrimStart(str)
        negative == s # <<>> /\ Head(s) = "-"
        signed == s # <<>> /\ Head(s) \in {"-", "+"}
        body == IF signed THEN Tail(s) ELSE s
    IN  IF body = <<>> \/ ~IsDigit(Head(body))
        THEN [nan |-> TRUE, value |-> 0]
        ELSE [nan |-> FALSE,
              value |-> IF negative THEN 0 - DigitsValue(body, 0) ELSE DigitsValue(body, 0)]

\* Number.prototype.toString() of a non-negative integer
RECURSIVE NumberToString(_)
NumberToString(n) ==
    IF n < 10 THEN <<Digits[n + 1]>>
    ELSE Append(NumberToString(n \div 10), Digits[(n % 10) + 1])

DefaultDuration == 60

\* parseInt(e.target.value) || 60: NaN and 0 are falsy
DurationFromInput(str) ==
    LET n == ParseInt(str)
    IN  IF n.nan \/ n.value = 0 THEN DefaultDuration ELSE n.value

DurationChars == {"-", "0", "1", "5", "a"}

\* Values typed into the duration input
DurationInputs == StringsUpTo(DurationChars, MaxDurLen)

----------------------------------------------------------------------------
(* Dates *)

MsPerMinute == 60000

MsPerDay == 24 * 60 * MsPerMinute

\* new Date("YYYY-MM-DD").getTime(): a date-only string is UTC midnight of its day
ParseDateOnly(day) == day * MsPerDay

\* date.toISOString().split('T')[0]: the UTC calendar day of the instant
formatDateForInput(date) == date \div MsPerDay

\* handleDateChange: the Date stored for a date-only string, in a zone whose
\* getTimezoneOffset() is offset
AdjustedDate(day, offset) ==
    LET date == ParseDateOnly(day)
        timeZoneOffset == offset * MsPerMinute
    IN  date + timeZoneOffset

\* getTimezoneOffset() of UTC+8, UTC+1, UTC, UTC-5 and UTC-8
TimezoneOffsets == {-480, -60, 0, 300, 480}

Days == 0..MaxDay

----------------------------------------------------------------------------
(* The draft *)

\* useState<NewTaskData>({...}): the draft of a drawer that has just opened.
\* hasDate says whether the prop initialDueDate is given.
InitialDraft(lists, hasDate, initialDueDate, clock) ==
    [title |-> <<>>,
     listId |-> IF lists = <<>> \/ lists[1] = 0 THEN 1 ELSE lists[1],
     dueDate |-> IF hasDate THEN initialDueDate ELSE clock,
     startTime |-> <<>>,
     duration |-> DefaultDuration,
     isFixed |-> FALSE,
     completed |-> FALSE,
     important |-> FALSE,
     notes |-> <<>>,
     subtasks |-> <<>>]

\* The handlers below take snap, the draft their closure captured at render
\* (newTask), and prev, the draft React passes to a functional update.

\* handleSubtaskChange: updatedSubtasks[index] is undefined outside the array,
\* and assigning its title throws a TypeError before setNewTask is reached
SubtaskChangeThrows(snap, index) ==
    ~(0 <= index /\ index < Len(snap.subtasks))

\* Mutant: the new title is written to every row
SubtaskChangeResultEveryRow(snap, prev, index, value) ==
    LET updatedSubtasks ==
            [i \in 1..Len(snap.subtasks) |-> [snap.subtasks[i] EXCEPT !.title = value]]
    IN  [prev EXCEPT !.subtasks = updatedSubtasks]

\* handleSubtaskChange, index inside the array
SubtaskChangeResult(snap, prev, index, value) ==
    LET updatedSubtasks == [snap.subtasks EXCEPT ![index + 1].title = value]
    IN  [prev EXCEPT !.subtasks = updatedSubtasks]

\* addSubtask
AddSubtaskResult(prev, clock) ==
    [prev EXCEPT !.subtasks =
        Append(prev.subtasks, [id |-> clock, title |-> <<>>, completed |-> FALSE])]

\* Mutant: the guard compares the title with '' without trimming it
AddSubtaskDisabledUntrimmed(snap) ==
    /\ Len(snap.subtasks) > 0
    /\ snap.subtasks[Len(snap.subtasks)].title = <<>>

\* Mutant: the guard looks at the first row instead of the last
AddSubtaskDisabledFirstRow(snap) ==
    /\ Len(snap.subtasks) > 0
    /\ Trim(snap.subtasks[1].title) = <<>>

\* disabled= of the Add Subtask button
AddSubtaskDisabled(snap) ==
    /\ Len(snap.subtasks) > 0
    /\ Trim(snap.subtasks[Len(snap.subtasks)].title) = <<>>

\* Mutant: splice(index) instead of the filter, which drops the rows behind too
FilterOutFromIndex(subtasks, index) ==
    IF index < 0 THEN subtasks
    ELSE SubSeq(subtasks, 1, IF index < Len(subtasks) THEN index ELSE Len(subtasks))

\* newTask.subtasks.filter((_, i) => i !== index)
FilterOutIndex(subtasks, index) ==
    LET keep == {i \in 1..Len(subtasks) : i - 1 # index}
        \* position in subtasks of the n-th kept row
        nth(n) == CHOOSE i \in keep : Cardinality({j \in keep : j < i}) = n - 1
    IN  [n \in 1..Cardinality(keep) |-> subtasks[nth(n)]]

\* removeSubtask
RemoveSubtaskResult(snap, prev, index) ==
    LET updatedSubtasks == FilterOutIndex(snap.subtasks, index)
    IN  [prev EXCEPT !.subtasks = updatedSubtasks]

\* handleDateChange
DateChangeResult(prev, day, offset) ==
    [prev EXCEPT !.dueDate = AdjustedDate(day, offset)]

\* Mutant: the guard tests the title without trimming it
SubmitAbortsUntrimmed(snap) == snap.title = <<>>

\* Mutant: the button tests the title without trimming it
SubmitDisabledUntrimmed(snap) == snap.title = <<>>

\* disabled= of the Add Task (submit) button
SubmitDisabled(snap) == Trim(snap.title) = <<>>

\* if (!newTask.title.trim()) return;
SubmitAborts(snap) == Trim(snap.title) = <<>>

\* Mutant: the rows keep the Date.now() identifiers they were created with
WithOwnId(subtasks) == subtasks

\* .map((sub, index) => ({ ...sub, id: index }))
WithIndexAsId(subtasks) ==
    [i \in 1..Len(subtasks) |-> [subtasks[i] EXCEPT !.id = i - 1]]

HasTitle(sub) == Trim(sub.title) # <<>>

\* finalSubtasks: map, then filter
FinalSubtasks(snap) == SelectSeq(WithIndexAsId(snap.subtasks), HasTitle)

\* Mutant: the title is emitted as typed
SubmitPayloadUntrimmed(snap) ==
    [title |-> snap.title,
     listId |-> snap.listId,
     dueDate |-> snap.dueDate,
     startTime |-> snap.startTime,
     duration |-> snap.duration,
     isFixed |-> snap.isFixed,
     important |-> snap.important,
     notes |-> Trim(snap.notes),
     subtasks |-> FinalSubtasks(snap)]

\* Mutant: the whole draft is spread into the payload, completed included
SubmitPayloadWithCompleted(snap) ==
    [snap EXCEPT !.title = Trim(snap.title),
                 !.notes = Trim(snap.notes),
                 !.subtasks = FinalSubtasks(snap)]

\* The argument of onAddTask: the draft without completed, title and notes trimmed
SubmitPayload(snap) ==
    [title |-> Trim(snap.title),
     listId |-> snap.listId,
     dueDate |-> snap.dueDate,
     startTime |-> snap.startTime,
     duration |-> snap.duration,
     isFixed |-> snap.isFixed,
     important |-> snap.important,
     notes |-> Trim(snap.notes),
     subtasks |-> FinalSubtasks(snap)]

OnAddTaskCall(task) == [fn |-> "onAddTask", task |-> task]

OnCloseCall == [fn |-> "onClose"]

\* The callbacks handleSubmit invokes, in order
SubmitCalls(snap) ==
    IF SubmitAborts(snap) THEN <<>>
    ELSE <<OnAddTaskCall(SubmitPayload(snap)), OnCloseCall>>

\* The host view after the callbacks cs: onClose is handleCloseDrawer, and the
\* drawer is mounted only while drawerMode is "addTask"
ModeAfter(mode, cs) ==
    IF \E i \in 1..Len(cs) : cs[i].fn = "onClose" THEN "none" ELSE mode

----------------------------------------------------------------------------
(* Actions: one per event handler.  Each runs to completion and React       *)
(* renders again before the next event is handled.                          *)

\* Mutant: the drawer stays mounted after the close notification
MountedAlways == TRUE

Mounted == drawerMode = "addTask"

\* What is recorded of the handler that runs
Ran(op, index, value, day, threw) ==
    [op |-> op, index |-> index, value |-> value, day |-> day, threw |-> threw]

\* onChange of the title input
TitleChange(value) ==
    /\ Mounted
    /\ newTask' = [newTask EXCEPT !.title = value]
    /\ last' = Ran("titleChange", -1, value, -1, FALSE)
    /\ UNCHANGED <<drawerMode, calls, now, tzOffset, taskLists>>

\* onChange of the duration input
DurationChange(value) ==
    /\ Mounted
    /\ newTask' = [newTask EXCEPT !.duration = DurationFromInput(value)]
    /\ last' = Ran("durationChange", -1, value, -1, FALSE)
    /\ UNCHANGED <<drawerMode, calls, now, tzOffset, taskLists>>

\* onChange of the due date input
HandleDateChange(day) ==
    /\ Mounted
    /\ newTask' = DateChangeResult(newTask, day, tzOffset)
    /\ last' = Ran("handleDateChange", -1, <<>>, day, FALSE)
    /\ UNCHANGED <<drawerMode, calls, now, tzOffset, taskLists>>

\* onChange of a subtask row, or a call with any index
HandleSubtaskChange(index, value) ==
    /\ Mounted
    /\ IF SubtaskChangeThrows(newTask, index)
       THEN /\ newTask' = newTask
            /\ last' = Ran("handleSubtaskChange", index, value, -1, TRUE)
       ELSE /\ newTask' = SubtaskChangeResult(newTask, newTask, index, value)
            /\ last' = Ran("handleSubtaskChange", index, value, -1, FALSE)
    /\ UNCHANGED <<drawerMode, calls, now, tzOffset, taskLists>>

\* A click on the Add Subtask button: a disabled button runs no handler.
\* clock is what Date.now() returns: the last value read, or a later one.
AddSubtask(clock) ==
    /\ Mounted
    /\ Len(newTask.subtasks) < MaxSubtasks
    /\ clock >= now
    /\ IF AddSubtaskDisabled(newTask)
       THEN UNCHANGED <<newTask, now>>
       ELSE /\ newTask' = AddSubtaskResult(newTask, clock)
            /\ now' = clock
    /\ last' = Ran("addSubtask", -1, <<>>, -1, FALSE)
    /\ UNCHANGED <<drawerMode, calls, tzOffset, taskLists>>

\* A click on the trash button of a row, or a call with any index
RemoveSubtask(index) ==
    /\ Mounted
    /\ newTask' = RemoveSubtaskResult(newTask, newTask, index)
    /\ last' = Ran("removeSubtask", index, <<>>, -1, FALSE)
    /\ UNCHANGED <<drawerMode, calls, now, tzOffset, taskLists>>

\* onSubmit of the form
HandleSubmit ==
    /\ Mounted
    /\ calls' = calls \o SubmitCalls(newTask)
    /\ drawerMode' = ModeAfter(drawerMode, SubmitCalls(newTask))
    /\ last' = Ran("handleSubmit", -1, <<>>, -1, FALSE)
    /\ UNCHANGED <<newTask, now, tzOffset, taskLists>>

\* Mutant: the Cancel button lacks type="button", so its click also submits the form
CancelSubmits ==
    /\ Mounted
    /\ calls' = Append(calls, OnCloseCall) \o SubmitCalls(newTask)
    /\ drawerMode' = ModeAfter(drawerMode, <<OnCloseCall>>)
    /\ last' = Ran("cancel", -1, <<>>, -1, FALSE)
    /\ UNCHANGED <<newTask, now, tzOffset, taskLists>>

\* The Cancel button and the backdrop: onClick={onClose}
Cancel ==
    /\ Mounted
    /\ calls' = Append(calls, OnCloseCall)
    /\ drawerMode' = ModeAfter(drawerMode, <<OnCloseCall>>)
    /\ last' = Ran("cancel", -1, <<>>, -1, FALSE)
    /\ UNCHANGED <<newTask, now, tzOffset, taskLists>>

\* onValueChange of the list select: value is list.id.toString() of a list supplied
ListChange(id) ==
    /\ Mounted
    /\ newTask' = [newTask EXCEPT !.listId = ParseInt(NumberToString(id)).value]
    /\ last' = Ran("listChange", id, <<>>, -1, FALSE)
    /\ UNCHANGED <<drawerMode, calls, now, tzOffset, taskLists>>

\* onChange of the start time input
StartTimeChange(value) ==
    /\ Mounted
    /\ newTask' = [newTask EXCEPT !.startTime = value]
    /\ last' = Ran("startTimeChange", -1, value, -1, FALSE)
    /\ UNCHANGED <<drawerMode, calls, now, tzOffset, taskLists>>

\* Mutant: the important switch is bound to isFixed as well
ImportantChangeBoth(checked) ==
    /\ Mounted
    /\ newTask' = [newTask EXCEPT !.important = checked, !.isFixed = checked]
    /\ last' = Ran("importantChange", IF checked THEN 1 ELSE 0, <<>>, -1, FALSE)
    /\ UNCHANGED <<drawerMode, calls, now, tzOffset, taskLists>>

\* onCheckedChange of the important switch (index records checked as 1 or 0)
ImportantChange(checked) ==
    /\ Mounted
    /\ newTask' = [newTask EXCEPT !.important = checked]
    /\ last' = Ran("importantChange", IF checked THEN 1 ELSE 0, <<>>, -1, FALSE)
    /\ UNCHANGED <<drawerMode, calls, now, tzOffset, taskLists>>

\* onCheckedChange of the fixed time switch (index records checked as 1 or 0)
FixedChange(checked) ==
    /\ Mounted
    /\ newTask' = [newTask EXCEPT !.isFixed = checked]
    /\ last' = Ran("fixedChange", IF checked THEN 1 ELSE 0, <<>>, -1, FALSE)
    /\ UNCHANGED <<drawerMode, calls, now, tzOffset, taskLists>>

\* onChange of the notes
NotesChange(value) ==
    /\ Mounted
    /\ newTask' = [newTask EXCEPT !.notes = value]
    /\ last' = Ran("notesChange", -1, value, -1, FALSE)
    /\ UNCHANGED <<drawerMode, calls, now, tzOffset, taskLists>>

\* A click on the Add Task button: a disabled button submits nothing,
\* an enabled one fires onSubmit of the form
SubmitClick ==
    /\ Mounted
    /\ LET cs == IF SubmitDisabled(newTask) THEN <<>> ELSE SubmitCalls(newTask)
       IN  /\ calls' = calls \o cs
           /\ drawerMode' = ModeAfter(drawerMode, cs)
    /\ last' = Ran("submitClick", -1, <<>>, -1, FALSE)
    /\ UNCHANGED <<newTask, now, tzOffset, taskLists>>

\* Two handlers run in one render, with no re-render between them: both
\* closures hold the draft of that render (snap = newTask), and React applies
\* the queued updates in order, the second to the result of the first.

\* addSubtask, then handleSubtaskChange on a row of the rendered list
AddThenChange(clock, index, value) ==
    /\ Mounted
    /\ Len(newTask.subtasks) < MaxSubtasks
    /\ ~AddSubtaskDisabled(newTask)
    /\ clock >= now
    /\ ~SubtaskChangeThrows(newTask, index)
    /\ newTask' = SubtaskChangeResult(newTask, AddSubtaskResult(newTask, clock), index, value)
    /\ now' = clock
    /\ last' = Ran("addThenChange", index, value, -1, FALSE)
    /\ UNCHANGED <<drawerMode, calls, tzOffset, taskLists>>

\* addSubtask, then removeSubtask
AddThenRemove(clock, index) ==
    /\ Mounted
    /\ Len(newTask.subtasks) < MaxSubtasks
    /\ ~AddSubtaskDisabled(newTask)
    /\ clock >= now
    /\ newTask' = RemoveSubtaskResult(newTask, AddSubtaskResult(newTask, clock), index)
    /\ now' = clock
    /\ last' = Ran("addThenRemove", index, <<>>, -1, FALSE)
    /\ UNCHANGED <<drawerMode, calls, tzOffset, taskLists>>

\* The first instant of the model's clock: noon of day 2
ClockStart == ParseDateOnly(2) + 12 * 60 * MsPerMinute

\* The values Date.now() may return
Clock == ClockStart..(ClockStart + MaxTicks)

\* Indices a caller may pass: every row, and one position to either side
Indices == -1..MaxSubtasks

NoHandler ==
    [op |-> "none", index |-> -1, value |-> <<>>, day |-> -1, threw |-> FALSE]

\* The drawer has just opened in a zone with one of the offsets
InitIn(offsets) ==
    /\ now = ClockStart
    /\ tzOffset \in offsets
    /\ taskLists = <<1, 2>>
    /\ newTask = InitialDraft(taskLists, FALSE, 0, now)
    /\ drawerMode = "addTask"
    /\ calls = <<>>
    /\ last = NoHandler

----------------------------------------------------------------------------
(* Spec: title, subtask rows, submit and cancel *)

Init == InitIn({0})

Next ==
    \/ \E value \in TitleInputs : TitleChange(value)
    \/ \E clock \in Clock : AddSubtask(clock)
    \/ \E index \in Indices, value \in SubtaskInputs : HandleSubtaskChange(index, value)
    \/ \E index \in Indices : RemoveSubtask(index)
    \/ HandleSubmit
    \/ Cancel

Spec == Init /\ [][Next]_vars

(* SpecDate: the due date input in every zone *)

InitDate == InitIn(TimezoneOffsets)

NextDate ==
    \/ \E day \in Days : HandleDateChange(day)
    \/ \E value \in TitleInputs : TitleChange(value)
    \/ HandleSubmit

SpecDate == InitDate /\ [][NextDate]_vars

(* SpecDuration: the duration input, then submit *)

NextDuration ==
    \/ \E value \in DurationInputs : DurationChange(value)
    \/ \E value \in TitleInputs : TitleChange(value)
    \/ HandleSubmit
    \/ Cancel

SpecDuration == Init /\ [][NextDuration]_vars

(* SpecFields: every field of the form, one subtask row that gets a title,  *)
(* and the Add Task button                                                   *)

\* The identifiers of the lists supplied
ListIds == {taskLists[i] : i \in 1..Len(taskLists)}

NextFields ==
    \/ \E value \in TitleInputs : TitleChange(value)
    \/ \E id \in ListIds : ListChange(id)
    \/ \E day \in {0} : HandleDateChange(day)
    \/ \E value \in StartTimeInputs : StartTimeChange(value)
    \/ \E value \in {<<"1", "5">>} : DurationChange(value)
    \/ \E checked \in BOOLEAN : ImportantChange(checked)
    \/ \E checked \in BOOLEAN : FixedChange(checked)
    \/ \E value \in NotesInputs : NotesChange(value)
    \/ \E clock \in Clock : AddSubtask(clock)
    \/ \E index \in {0}, value \in {<<"a">>} : HandleSubtaskChange(index, value)
    \/ SubmitClick
    \/ HandleSubmit

SpecFields == Init /\ [][NextFields]_vars

(* SpecOpen: the drawer opens with any lists and any initial due date *)

\* Values of the prop taskLists
TaskListsInputs == {<<>>, <<0>>, <<0, 1>>, <<1, 2>>, <<2, 1>>, <<7>>, <<12, 3>>}

InitOpen ==
    /\ now = ClockStart
    /\ tzOffset = 0
    /\ taskLists \in TaskListsInputs
    /\ \E hasDate \in BOOLEAN, day \in Days :
          newTask = InitialDraft(taskLists, hasDate, ParseDateOnly(day), now)
    /\ drawerMode = "addTask"
    /\ calls = <<>>
    /\ last = NoHandler

NextOpen ==
    \/ \E id \in ListIds : ListChange(id)
    \/ \E value \in TitleInputs : TitleChange(value)
    \/ SubmitClick
    \/ Cancel

SpecOpen == InitOpen /\ [][NextOpen]_vars

(* SpecBatch: the subtask handlers, also two of them in one render *)

NextBatch ==
    \/ \E clock \in Clock : AddSubtask(clock)
    \/ \E index \in Indices, value \in SubtaskInputs : HandleSubtaskChange(index, value)
    \/ \E index \in Indices : RemoveSubtask(index)
    \/ \E clock \in Clock, index \in Indices, value \in SubtaskInputs :
          AddThenChange(clock, index, value)
    \/ \E clock \in Clock, index \in Indices : AddThenRemove(clock, index)

SpecBatch == Init /\ [][NextBatch]_vars

----------------------------------------------------------------------------
(* Properties *)

Blank(str) == Trim(str) = <<>>

Submitted == last.op = "handleSubmit" /\ calls # <<>>

\* C1: a submit of a draft whose trimmed title is non-empty calls onAddTask
\* once, with the trimmed title, and then onClose once.
C1_SubmitEmitsThenCloses ==
    (last.op = "handleSubmit" /\ ~Blank(newTask.title)) =>
        /\ Len(calls) = 2
        /\ calls[1].fn = "onAddTask"
        /\ calls[1].task.title = Trim(newTask.title)
        /\ calls[2].fn = "onClose"

\* A draft whose title had white space around it has been submitted
C1_Witness ==
    /\ Submitted
    /\ newTask.title = <<" ", "a", " ">>
    /\ calls[1].task.title = <<"a">>

\* C2: a submit of a draft whose title is empty or white space calls neither
\* callback and changes nothing of the draft; the drawer stays open.
C2_BlankTitleAborts ==
    [][(HandleSubmit /\ Blank(newTask.title)) =>
          /\ calls' = calls
          /\ newTask' = newTask
          /\ drawerMode' = drawerMode]_vars

\* A submit has run on a white-space title and the drawer is still open
C2_Witness ==
    /\ last.op = "handleSubmit"
    /\ newTask.title = <<"\t", " ">>
    /\ calls = <<>>
    /\ drawerMode = "addTask"

\* The rows of the draft that survive the filter of handleSubmit
Survivors == SelectSeq(newTask.subtasks, HasTitle)

\* C3: the emitted subtasks are the rows with a non-blank title, in order,
\* with the identifiers 0, 1, ..., k-1.
C3_EmittedIdsSequential ==
    Submitted =>
        LET emitted == calls[1].task.subtasks
        IN  /\ Len(emitted) = Len(Survivors)
            /\ \A i \in 1..Len(emitted) :
                  /\ emitted[i].title = Survivors[i].title
                  /\ emitted[i].id = i - 1

EmptyTitled == {i \in 1..Len(newTask.subtasks) : newTask.subtasks[i].title = <<>>}

\* C4, as claimed: at most one subtask of the draft has an empty title.
C4_AtMostOneEmptyTitle == Cardinality(EmptyTitled) <= 1

\* No row but the last is blank
OnlyLastMayBeBlank(subtasks) ==
    \A i \in 1..Len(subtasks) : Blank(subtasks[i].title) => i = Len(subtasks)

\* C4, amended: as long as no edit sets a title to a blank string, only the
\* last row can be blank (so at most one row is); only such an edit, never
\* the Add Subtask button or a removal, makes another row blank.
C4_OnlyEditsBlankEarlierRows ==
    [][(/\ OnlyLastMayBeBlank(newTask.subtasks)
        /\ ~(last'.op = "handleSubtaskChange" /\ Blank(last'.value)))
          => OnlyLastMayBeBlank(newTask'.subtasks)]_vars

\* A row was added behind rows that have titles
C4_Witness ==
    /\ last.op = "addSubtask"
    /\ Len(newTask.subtasks) = 3
    /\ OnlyLastMayBeBlank(newTask.subtasks)
    /\ Blank(newTask.subtasks[3].title)

\* C5: the Add Subtask button does nothing when the last row is blank, and
\* otherwise appends one row with an empty title, not completed, leaving the
\* rows before it as they were.
C5_AddSubtaskGuarded ==
    [][\A clock \in Clock : AddSubtask(clock) =>
          LET rows == newTask.subtasks
              n == Len(rows)
          IN  IF n > 0 /\ Blank(rows[n].title)
              THEN newTask' = newTask
              ELSE /\ Len(newTask'.subtasks) = n + 1
                   /\ SubSeq(newTask'.subtasks, 1, n) = rows
                   /\ newTask'.subtasks[n + 1].title = <<>>
                   /\ newTask'.subtasks[n + 1].completed = FALSE
                   /\ [newTask' EXCEPT !.subtasks = rows] = newTask]_vars

\* The button was clicked behind a row of white space and nothing was added
C5_Witness ==
    /\ last.op = "addSubtask"
    /\ Len(newTask.subtasks) = 2
    /\ newTask.subtasks[1].title = <<"a">>
    /\ newTask.subtasks[2].title = <<" ">>

\* C6: a date-only string chosen in the due date input is displayed again
\* as the same day, in every zone.
C6_DateRoundTrip ==
    last.op = "handleDateChange" => formatDateForInput(newTask.dueDate) = last.day

\* C7: a duration input that is not a number, or is zero or negative, sets
\* the duration to 60; one that parses to a positive integer sets it to that.
C7_DurationPositiveOrDefault ==
    last.op = "durationChange" =>
        LET n == ParseInt(last.value)
        IN  IF n.nan \/ n.value <= 0
            THEN newTask.duration = DefaultDuration
            ELSE newTask.duration = n.value

\* C8: the duration of the draft, and of every emitted payload, is at least 1.
C8_DurationAtLeastOne ==
    /\ newTask.duration >= 1
    /\ \A i \in 1..Len(calls) :
          calls[i].fn = "onAddTask" => calls[i].task.duration >= 1

\* C9: handleSubtaskChange with an index outside the list raises no error
\* (and leaves the draft as it was).
C9_OutOfRangeEditSilent ==
    (/\ last.op = "handleSubtaskChange"
     /\ ~(0 <= last.index /\ last.index < Len(newTask.subtasks)))
        => ~last.threw

\* C10: removeSubtask with an index of the list removes that row and shifts
\* the rows behind it down by one; with any other index it changes nothing;
\* it never throws.
C10_RemoveShiftsDown ==
    [][last'.op = "removeSubtask" =>
          LET rows == newTask.subtasks
              left == newTask'.subtasks
              index == last'.index
          IN  /\ ~last'.threw
              /\ [newTask' EXCEPT !.subtasks = rows] = newTask
              /\ IF 0 <= index /\ index < Len(rows)
                 THEN /\ Len(left) = Len(rows) - 1
                      /\ \A i \in 1..Len(left) :
                            left[i] = IF i <= index THEN rows[i] ELSE rows[i + 1]
                 ELSE left = rows]_vars

\* The first of three rows was removed and the two behind it moved down
C10_Witness ==
    /\ last.op = "removeSubtask"
    /\ last.index = 0
    /\ Len(newTask.subtasks) = 2
    /\ newTask.subtasks[1].title = <<"a">>
    /\ newTask.subtasks[2].title = <<"b">>

\* A payload has been emitted
Emitted == calls # <<>> /\ calls[1].fn = "onAddTask"

PayloadFields ==
    {"title", "listId", "dueDate", "startTime", "duration", "isFixed", "important",
     "notes", "subtasks"}

\* C11: the emitted payload has no completed field; its listId, dueDate,
\* startTime, duration, isFixed and important are the draft's, its notes the
\* draft's notes trimmed, and every emitted subtask is not completed.
C11_PayloadMatchesDraft ==
    Emitted =>
        LET task == calls[1].task
        IN  /\ "completed" \notin DOMAIN task
            /\ DOMAIN task = PayloadFields
            /\ task.listId = newTask.listId
            /\ task.dueDate = newTask.dueDate
            /\ task.startTime = newTask.startTime
            /\ task.duration = newTask.duration
            /\ task.isFixed = newTask.isFixed
            /\ task.important = newTask.important
            /\ task.notes = Trim(newTask.notes)
            /\ \A i \in 1..Len(task.subtasks) : task.subtasks[i].completed = FALSE

\* A draft with every field changed from its default has been emitted
C11_Witness ==
    /\ Emitted
    /\ newTask.notes = <<" ", "n", "\t">>
    /\ calls[1].task.notes = <<"n">>
    /\ newTask.listId = 2
    /\ newTask.dueDate = 0
    /\ newTask.startTime # <<>>
    /\ newTask.duration = 15
    /\ newTask.isFixed
    /\ newTask.important
    /\ Len(calls[1].task.subtasks) = 1

\* C12: a drawer that opens with at least one list has the identifier of the
\* first list as its listId, whatever that identifier is.
C12_InitialListIsFirst ==
    (last.op = "none" /\ taskLists # <<>>) => newTask.listId = taskLists[1]

\* C13: Cancel (or a click on the backdrop) sends the close notification and
\* emits no payload, whatever the draft holds.
C13_CancelClosesWithoutEmitting ==
    last.op = "cancel" =>
        /\ calls # <<>>
        /\ calls[Len(calls)].fn = "onClose"
        /\ \A i \in 1..Len(calls) : calls[i].fn # "onAddTask"

\* A draft with a title and a titled subtask was cancelled
C13_Witness ==
    /\ last.op = "cancel"
    /\ ~Blank(newTask.title)
    /\ Len(newTask.subtasks) >= 1
    /\ HasTitle(newTask.subtasks[1])
    /\ calls = <<OnCloseCall>>

C15_EditChangesOneTitle ==
    [][(last'.op = "handleSubtaskChange" /\ ~last'.threw) =>
          LET rows == newTask.subtasks
              edited == newTask'.subtasks
          IN  /\ Len(edited) = Len(rows)
              /\ \A i \in 1..Len(rows) :
                    edited[i] = IF i = last'.index + 1
                                THEN [rows[i] EXCEPT !.title = last'.value]
                                ELSE rows[i]
              /\ [newTask' EXCEPT !.subtasks = rows] = newTask]_vars

\* The second of three rows was given a title the others do not have
C15_Witness ==
    /\ last.op = "handleSubtaskChange"
    /\ ~last.threw
    /\ last.index = 1
    /\ last.value = <<"b">>
    /\ Len(newTask.subtasks) = 3
    /\ newTask.subtasks[1].title = <<"a">>
    /\ newTask.subtasks[2].title = <<"b">>
    /\ newTask.subtasks[3].title = <<>>

FieldOps ==
    {"titleChange", "listChange", "handleDateChange", "startTimeChange",
     "durationChange", "importantChange", "fixedChange", "notesChange"}

\* The draft d with the field named by a handler set to what d2 has there
WithFieldOf(d, op, d2) ==
    CASE op = "titleChange" -> [d EXCEPT !.title = d2.title]
      [] op = "listChange" -> [d EXCEPT !.listId = d2.listId]
      [] op = "handleDateChange" -> [d EXCEPT !.dueDate = d2.dueDate]
      [] op = "startTimeChange" -> [d EXCEPT !.startTime = d2.startTime]
      [] op = "durationChange" -> [d EXCEPT !.duration = d2.duration]
      [] op = "importantChange" -> [d EXCEPT !.important = d2.important]
      [] op = "fixedChange" -> [d EXCEPT !.isFixed = d2.isFixed]
      [] op = "notesChange" -> [d EXCEPT !.notes = d2.notes]

\* The input was stored in the field the handler is bound to
FieldSet(d, ran) ==
    CASE ran.op = "titleChange" -> d.title = ran.value
      [] ran.op = "listChange" -> d.listId = ran.index
      [] ran.op = "handleDateChange" -> d.dueDate = AdjustedDate(ran.day, tzOffset)
      [] ran.op = "startTimeChange" -> d.startTime = ran.value
      [] ran.op = "durationChange" -> d.duration = DurationFromInput(ran.value)
      [] ran.op = "importantChange" -> d.important = (ran.index = 1)
      [] ran.op = "fixedChange" -> d.isFixed = (ran.index = 1)
      [] ran.op = "notesChange" -> d.notes = ran.value

\* C16: a change of one scalar field sets that field and leaves the other
\* fields and the subtask list as they were; it calls neither callback.
C16_FieldChangeFrame ==
    [][last'.op \in FieldOps =>
          /\ ~last'.threw
          /\ FieldSet(newTask', last')
          /\ newTask' = WithFieldOf(newTask, last'.op, newTask')
          /\ calls' = calls
          /\ drawerMode' = drawerMode]_vars

\* The important switch was set on a draft whose other fields and rows are set
C16_Witness ==
    /\ last.op = "importantChange"
    /\ newTask.important
    /\ ~newTask.isFixed
    /\ ~Blank(newTask.title)
    /\ newTask.notes # <<>>
    /\ Len(newTask.subtasks) = 1
    /\ calls = <<>>


\* C17: two subtask handlers run in one render leave the list that they
\* leave with a re-render between them: an edit or a removal keeps the row
\* that an addSubtask queued before it in the same render appended.
C17_BatchEqualsSequential ==
    [][last'.op \in {"addThenChange", "addThenRemove"} =>
          LET added == AddSubtaskResult(newTask, now')
          IN  newTask'.subtasks =
                  IF last'.op = "addThenChange"
                  THEN SubtaskChangeResult(added, added, last'.index, last'.value).subtasks
                  ELSE RemoveSubtaskResult(added, added, last'.index).subtasks]_vars

\* C18: the emitted identifiers increase strictly, and each is the position
\* its row had in the draft when it was submitted, whatever Date.now() gave
\* the row when it was created.
C18_EmittedIdsArePositions ==
    Submitted =>
        LET emitted == calls[1].task.subtasks
            rows == newTask.subtasks
        IN  /\ Len(emitted) = Len(Survivors)
            /\ \A i, j \in 1..Len(emitted) : i < j => emitted[i].id < emitted[j].id
            /\ \A i \in 1..Len(emitted) :
                  /\ emitted[i].id + 1 \in 1..Len(rows)
                  /\ HasTitle(rows[emitted[i].id + 1])
                  /\ rows[emitted[i].id + 1].title = emitted[i].title

\* Two rows created in the same millisecond, behind a blank row, were emitted
C18_Witness ==
    /\ Submitted
    /\ Len(newTask.subtasks) = 3
    /\ Blank(newTask.subtasks[1].title)
    /\ newTask.subtasks[2].id = newTask.subtasks[3].id
    /\ Len(calls[1].task.subtasks) = 2
    /\ calls[1].task.subtasks[1].id = 1
    /\ calls[1].task.subtasks[2].id = 2

\* C19: the Add Task button is disabled exactly when the trimmed title is
\* empty, which is when handleSubmit would abort; a click on the enabled
\* button emits the payload.
C19_SubmitButtonMatchesGuard ==
    /\ SubmitDisabled(newTask) <=> Blank(newTask.title)
    /\ SubmitDisabled(newTask) <=> (SubmitCalls(newTask) = <<>>)
    /\ (last.op = "submitClick" /\ ~SubmitDisabled(newTask)) => Emitted
    /\ (last.op = "submitClick" /\ SubmitDisabled(newTask)) => calls = <<>>

\* The enabled button was clicked and the payload emitted
C19_Witness ==
    /\ last.op = "submitClick"
    /\ ~SubmitDisabled(newTask)
    /\ Emitted

====
